---- MODULE Spec2Model ----
(***************************************************************************)
(* nansible: the control plane's Deploy state machine (deploy.Start), its  *)
(* success/error subscriptions, the Acked() poller, the sync callback that *)
(* persists Host and Deploy, and the host-discovery loop                   *)
(* (Server.identifyAndSave) writing the same Host records; the dispatcher's *)
(* HTTP handlers; the agent's job loop and its deployer.                   *)
(*                                                                         *)
(* Time is counted in minutes.  A duration shorter than a minute (the 2s   *)
(* discovery window, the 100ms poll of Acked) takes no time.  The only     *)
(* steps that advance the clock are the expiries of timers.                *)
(***************************************************************************)
EXTENDS Integers, Sequences, FiniteSets, TLC

VARIABLES
    now,        \* wall clock, minutes
    dpy,        \* the deploy struct (exported fields)
    hst,        \* dpy.hst, the host object the Deploy mutates
    retries,    \* Start's parameter/local `retries`
    R,          \* the value Start was called with
    interval,   \* Start's parameter `interval`
    pc,         \* position of the Start goroutine
    reqAt,      \* time the pending nc.Request was issued
    requests,   \* job requests published on nansible.<host>.playbook
    ctxErr,     \* ctx.Err(): "" while live, "canceled", "deadline"
    ctxDeadline,\* deadline of the terminal-wait context
    sub1,       \* success subscription is active
    sub2,       \* error subscription is active
    queue1,     \* messages pending on the success subscription
    queue2,     \* messages pending on the error subscription
    cb1,        \* position of the success callback: [pc, msg]
    cb2,        \* position of the error callback: [pc, msg]
    published,  \* success/error messages published by the agent so far
    reply,      \* the inbox of the pending nc.Request: <<>> or <<data>>
    done,       \* dpy.done is closed
    ackedCh,    \* the channel returned by Acked() is closed
    syncLog,    \* what each invocation of onSync was handed
    hostsDB,    \* redis hashes of the hosts collection, by model key
    hostsIndex, \* redis set of all ids of the hosts collection
    deploysDB,  \* redis hashes of the deploys collection
    dpc,        \* position of the discovery loop
    collected,  \* identifyAndSave's local `hosts`
    cycles,     \* discovery cycles begun
    wakeAt,     \* end of the discovery loop's sleep
    groupsDB,   \* redis hashes of the groups collection
    playbooksDB,\* redis hashes of the playbooks collection
    deploys,    \* the deploy objects whose Start goroutine was launched
    running,    \* svr.running: pointers (indices into deploys)
    responses,  \* the HTTP responses written so far, in order
    dropped,    \* job messages the agent's subscription could not hand over
    jobsSent,   \* job messages published to the agent so far
    agentMsg,   \* the agent loop's `msg`
    agentPc,    \* position of the agent's main goroutine / of the Deploy call
    agentPub,   \* what the agent has published, in order
    dp,         \* the deployer variable: [mu, curr]
    dpRecv,     \* the receiver copy a running Deploy call works on
    proc,       \* the ansible-playbook process of the running Deploy call
    cancels,    \* the calls of Cancel made so far: [running, signalled]
    returns,    \* what the calls of Deploy returned so far
    yml,        \* the argument of the running Deploy call
    logged,     \* the last iteration of the discovery loop logged an ERROR line
    nsg,        \* a NansibleMessage value
    wire,       \* the bytes NansibleMessage.Bytes returned
    parsed,     \* what ParseNanMsg returned: [msg, err]
    cpc,        \* position of the encode/parse round trip
    onSyncFn,   \* dpy.onSync: "noop" (newDeploy) or "persist" (the handlers')
    deferredFn  \* the function value evaluated by the defer of line 79

vars == <<now, dpy, hst, retries, R, interval, pc, reqAt, requests, ctxErr,
          ctxDeadline, sub1, sub2, queue1, queue2, cb1, cb2, published, reply,
          done, ackedCh, syncLog, hostsDB, hostsIndex, deploysDB, dpc, collected,
          cycles, wakeAt, groupsDB, playbooksDB, deploys, running, responses,
          dropped, jobsSent, agentMsg, agentPc, agentPub, dp, dpRecv, proc,
          cancels, returns, yml, logged, nsg, wire, parsed, cpc,
          onSyncFn, deferredFn>>

startVars == <<dpy, hst, retries, R, interval, pc, reqAt, requests, ctxErr,
               ctxDeadline, sub1, sub2, done>>
busVars   == <<queue1, queue2, cb1, cb2, published, reply>>
storeVars == <<hostsDB, hostsIndex, deploysDB, syncLog>>
discVars  == <<dpc, collected, cycles, wakeAt, logged>>
apiVars   == <<groupsDB, playbooksDB, deploys, running, responses>>
agentVars == <<dropped, jobsSent, agentMsg, agentPc, agentPub, dp, dpRecv,
               proc, cancels, returns, yml>>
codecVars == <<nsg, wire, parsed, cpc>>
syncVars  == <<onSyncFn, deferredFn>>

----------------------------------------------------------------------------
(* Bounds *)

MaxRetries == 3
IntervalStep == 20
MaxIntervalSteps == 2
MaxPublished == 2
MaxPongs == 2
MaxCycles == 2
MaxRequests == 3
MaxGroupHosts == 2
MaxJobs == 4
MaxPings == 2
MaxCalls == 3
MaxCancels == 3
MaxStrLen == 2

(* Program constants, in minutes *)

Hour == 60
maxDeployTime == 30
Minute == 1
ZeroTime == 0

stateNew     == ""
stateSent    == "sent"
stateAcked   == "acked"
stateSuccess == "success"
stateError   == "error"

HostIds   == {"h1", "h2"}
TheHost   == "h1"
ThePlaybook == "pb1"
AckData   == {"sum"}
\* the captured output carried by the n-th terminal message
Output(n) == "out" \o ToString(n)
Intervals == {IntervalStep * k : k \in 0..MaxIntervalSteps}
NoRecord  == [none |-> TRUE]
GroupNames  == {"g1"}
PlaybookIds == {"pb1", "pb2"}
\* a pointer that was declared and never allocated (var x *T), or a struct
\* field left out of a composite literal
NilPtr    == "nil"
Allocated == "allocated"

Max(a, b) == IF a >= b THEN a ELSE b

----------------------------------------------------------------------------
(* Records *)

host(name, state, seen) ==
    [Name |-> name, State |-> state,
     LastDeployedAt |-> ZeroTime, LastDeployedPlaybook |-> "",
     LastAckedPlaybook |-> "", LastAckedAt |-> ZeroTime,
     LastSuccessPlaybook |-> "", LastSuccessAt |-> ZeroTime,
     LastErrorPlaybook |-> "", LastErrorAt |-> ZeroTime,
     LastSeenAt |-> seen]

group(name, pbName, hostnames) ==
    [Name |-> name, Playbook |-> pbName, Hosts |-> hostnames]

playbook(id) == [ID |-> id, Name |-> id, Data |-> "yml-" \o id]

\* cmd/nansible: type deployer struct { mu *sync.Mutex; curr *os.Process }
deployer(mu, curr) == [mu |-> mu, curr |-> curr]

\* no message: the agent loop's `msg` before the first receive
NoMsg == [id |-> 0, wellFormed |-> FALSE, Playbook |-> "", Payload |-> ""]

\* models.go lines 208-210: encryptWithSalt returns the playbook unchanged
encryptWithSalt(salt, pb) == pb

\* models.go lines 16-18: playbook.EncryptedString
EncryptedString(pb, salt) == encryptWithSalt(salt, pb.Data)

\* models.go lines 24-26: playbook.MD5SUM, the hex MD5 digest of the data: 32
\* hex digits, a different digest for each of the playbooks modelled
MD5SUM(pb) == "md5-" \o pb.Data

\* models.go lines 57-63: NansibleMessage; a string is a sequence of characters
NansibleMessage(h, pbName, payload, deployId) ==
    [Host |-> h, Playbook |-> pbName, Payload |-> payload, Deploy |-> deployId,
     Error |-> <<>>]

\* ParseNanMsg has not been called
NotParsed == [msg |-> NansibleMessage(<<>>, <<>>, <<>>, <<>>), err |-> FALSE]

newDeploy(h, pbName) ==
    [ID |-> "abcd", StartedAt |-> ZeroTime, FinishedAt |-> ZeroTime,
     State |-> stateNew, Host |-> h.Name, Playbook |-> pbName,
     SuccessAt |-> ZeroTime, ErrorAt |-> ZeroTime, AckedAt |-> ZeroTime,
     Error |-> ""]

----------------------------------------------------------------------------
(* The store: zoom.Collection over redis *)

\* Collection.Save: HMSET of every field under the model key, SADD to the index
\* a Save that writes nothing
SaveDropped(db, id, model) == db

Save(db, id, model) == [db EXCEPT ![id] = model]

\* A partial update that writes the whole model, as Collection.Save does
SaveFieldsWholeModel(db, id, model) == [db EXCEPT ![id] = model]

\* Collection.SaveFields([]string{"LastSeenAt"}, model): HMSET of that field only
SaveFieldsLastSeenAt(db, id, model) ==
    [db EXCEPT ![id] = [db[id] EXCEPT !.LastSeenAt = model.LastSeenAt]]

\* Collection.Exists: EXISTS on the model key
Exists(db, id) == db[id] # NoRecord

\* The callback installed with OnSync (handleDeployGroup, lines 151-154):
\* save the host object, then the deploy.
onSync(fn, h, d) ==
    /\ syncLog' = Append(syncLog, [hst |-> h, dpy |-> d])
    /\ IF fn = "persist"
       THEN /\ hostsDB' = Save(hostsDB, h.Name, h)
            /\ hostsIndex' = hostsIndex \cup {h.Name}
            /\ deploysDB' = Save(deploysDB, d.ID, d)
       ELSE UNCHANGED <<hostsDB, hostsIndex, deploysDB>>

----------------------------------------------------------------------------
(* Initial state: host h1 is known to the store, a Deploy of pb1 to h1 has *)
(* been constructed from the stored record and saved, its sync callback is *)
(* fn, Start(retries, interval) and Acked() are about to run.              *)

DeployBuilt(fn) ==
    /\ onSyncFn = fn
    /\ deferredFn = "noop"
    /\ now = 1
    /\ hst = host(TheHost, stateNew, 1)
    /\ dpy = newDeploy(hst, ThePlaybook)
    /\ R \in 0..MaxRetries
    /\ retries = R
    /\ interval \in Intervals
    /\ pc = "start"
    /\ reqAt = ZeroTime
    /\ requests = 0
    /\ ctxErr = ""
    /\ ctxDeadline = ZeroTime
    /\ sub1 = FALSE
    /\ sub2 = FALSE
    /\ queue1 = <<>>
    /\ queue2 = <<>>
    /\ cb1 = [pc |-> "idle", msg |-> ""]
    /\ cb2 = [pc |-> "idle", msg |-> ""]
    /\ published = 0
    /\ reply = <<>>
    /\ done = FALSE
    /\ ackedCh = FALSE
    /\ syncLog = <<>>
    /\ hostsDB = [h \in HostIds |-> IF h = TheHost THEN hst ELSE NoRecord]
    /\ hostsIndex = {TheHost}
    /\ deploysDB = [i \in {"abcd"} |-> dpy]
    /\ dpc = "collect"
    /\ collected = <<>>
    /\ cycles = 0
    /\ wakeAt = ZeroTime
    /\ logged = FALSE

\* handleDeployGroup, lines 145-156: OnSync is called before Start is launched
StartInit == DeployBuilt("persist")

\* NewServer: no Deploy is tracked, no request has been answered
ApiIdle ==
    /\ groupsDB = [g \in GroupNames |-> NoRecord]
    /\ playbooksDB = [p \in PlaybookIds |-> NoRecord]
    /\ deploys = <<>>
    /\ running = <<>>
    /\ responses = <<>>

\* the agent process has subscribed and has received nothing
AgentIdle ==
    /\ dropped = <<>>
    /\ jobsSent = 0
    /\ agentMsg = NoMsg
    /\ agentPc = "range"
    /\ agentPub = <<>>
    /\ dp = deployer(NilPtr, NilPtr)
    /\ dpRecv = dp
    /\ proc = "none"
    /\ cancels = <<>>
    /\ returns = <<>>
    /\ yml = ""

\* no message is being encoded or parsed
CodecIdle ==
    /\ nsg = NansibleMessage(<<>>, <<>>, <<>>, <<>>)
    /\ wire = <<>>
    /\ parsed = NotParsed
    /\ cpc = "idle"

Init ==
    /\ StartInit
    /\ ApiIdle
    /\ AgentIdle
    /\ CodecIdle

----------------------------------------------------------------------------
(* deploy.Start *)

\* lines 76-82: StartedAt, the three defers, LastDeployedPlaybook, first sync
Start_Begin ==
    /\ pc = "start"
    /\ LET d == [dpy EXCEPT !.StartedAt = now]
           h == [hst EXCEPT !.LastDeployedPlaybook = ThePlaybook]
       IN  /\ dpy' = d
           /\ hst' = h
           /\ onSync(onSyncFn, h, d)
    /\ pc' = "loop"
    /\ UNCHANGED <<now, retries, R, interval, reqAt, requests, ctxErr,
                   ctxDeadline, sub1, sub2, done, ackedCh>>
    /\ UNCHANGED busVars
    /\ UNCHANGED discVars
    /\ UNCHANGED apiVars
    /\ UNCHANGED agentVars
    /\ UNCHANGED codecVars
    /\ deferredFn' = onSyncFn
    /\ UNCHANGED onSyncFn

\* lines 84-96: the loop test; one more attempt: Sent, sync, publish the request
Start_Attempt ==
    /\ pc = "loop"
    /\ retries > 0
    /\ LET d == [dpy EXCEPT !.State = stateSent]
           h == [hst EXCEPT !.State = stateSent, !.LastDeployedAt = now]
       IN  /\ dpy' = d
           /\ hst' = h
           /\ onSync(onSyncFn, h, d)
    /\ requests' = requests + 1
    /\ reqAt' = now
    /\ pc' = "request"
    /\ UNCHANGED <<now, retries, R, interval, ctxErr, ctxDeadline, sub1, sub2,
                   done, ackedCh>>
    /\ UNCHANGED busVars
    /\ UNCHANGED discVars
    /\ UNCHANGED apiVars
    /\ UNCHANGED agentVars
    /\ UNCHANGED codecVars
    /\ UNCHANGED syncVars

\* line 84: the loop test fails, fall out of the loop
Start_LoopExit ==
    /\ pc = "loop"
    /\ ~(retries > 0)
    /\ pc' = "afterloop"
    /\ UNCHANGED <<now, dpy, hst, retries, R, interval, reqAt, requests,
                   ctxErr, ctxDeadline, sub1, sub2, done, ackedCh>>
    /\ UNCHANGED busVars
    /\ UNCHANGED storeVars
    /\ UNCHANGED discVars
    /\ UNCHANGED apiVars
    /\ UNCHANGED agentVars
    /\ UNCHANGED codecVars
    /\ UNCHANGED syncVars

\* cmd/nansible/main.go line 50: the agent publishes the ack on msg.Reply
Agent_Reply ==
    /\ pc = "request"
    /\ reply = <<>>
    /\ now <= reqAt + interval
    /\ \E data \in AckData : reply' = <<data>>
    /\ UNCHANGED <<now, ackedCh, queue1, queue2, cb1, cb2, published>>
    /\ UNCHANGED startVars
    /\ UNCHANGED storeVars
    /\ UNCHANGED discVars
    /\ UNCHANGED apiVars
    /\ UNCHANGED agentVars
    /\ UNCHANGED codecVars
    /\ UNCHANGED syncVars

\* Request_Reply without the break of line 102: Acked, then the next attempt
Request_Reply_NoBreak ==
    /\ pc = "request"
    /\ reply # <<>>
    /\ dpy' = [dpy EXCEPT !.State = stateAcked]
    /\ hst' = [hst EXCEPT !.State = stateAcked, !.LastAckedAt = now,
                          !.LastAckedPlaybook = Head(reply)]
    /\ reply' = <<>>
    /\ retries' = retries - 1
    /\ pc' = "loop"
    /\ UNCHANGED <<now, R, interval, reqAt, requests, ctxErr,
                   ctxDeadline, sub1, sub2, done, ackedCh>>
    /\ UNCHANGED <<queue1, queue2, cb1, cb2, published>>
    /\ UNCHANGED storeVars
    /\ UNCHANGED discVars
    /\ UNCHANGED apiVars
    /\ UNCHANGED agentVars
    /\ UNCHANGED codecVars
    /\ UNCHANGED syncVars

\* lines 96-103: nc.Request returned the reply; Acked, leave the loop
Request_Reply ==
    /\ pc = "request"
    /\ reply # <<>>
    /\ dpy' = [dpy EXCEPT !.State = stateAcked]
    /\ hst' = [hst EXCEPT !.State = stateAcked, !.LastAckedAt = now,
                          !.LastAckedPlaybook = Head(reply)]
    /\ reply' = <<>>
    /\ pc' = "afterloop"
    /\ UNCHANGED <<now, retries, R, interval, reqAt, requests, ctxErr,
                   ctxDeadline, sub1, sub2, done, ackedCh>>
    /\ UNCHANGED <<queue1, queue2, cb1, cb2, published>>
    /\ UNCHANGED storeVars
    /\ UNCHANGED discVars
    /\ UNCHANGED apiVars
    /\ UNCHANGED agentVars
    /\ UNCHANGED codecVars
    /\ UNCHANGED syncVars

\* Request_Fail with the ceiling of line 107 looked at only once the retry
\* budget is used up
Request_Fail_BudgetFirst ==
    /\ pc = "request"
    /\ reply = <<>>
    /\ LET t == Max(now, reqAt + interval)
       IN  /\ now' = t
           /\ IF retries = 1 /\ t - dpy.StartedAt > Hour
              THEN /\ dpy' = [dpy EXCEPT !.State = stateError, !.ErrorAt = t,
                                         !.Error = "abandoned"]
                   /\ hst' = [hst EXCEPT !.State = stateError,
                                         !.LastErrorAt = t,
                                         !.LastErrorPlaybook = ""]
                   /\ pc' = "deferSync"
                   /\ UNCHANGED retries
              ELSE /\ retries' = retries - 1
                   /\ pc' = "loop"
                   /\ UNCHANGED <<dpy, hst>>
    /\ UNCHANGED <<R, interval, reqAt, requests, ctxErr, ctxDeadline, sub1,
                   sub2, done, ackedCh>>
    /\ UNCHANGED busVars
    /\ UNCHANGED storeVars
    /\ UNCHANGED discVars
    /\ UNCHANGED apiVars
    /\ UNCHANGED agentVars
    /\ UNCHANGED codecVars
    /\ UNCHANGED syncVars

\* lines 96, 105-117: nc.Request returned an error when its timeout expired
\* (a failure within the first minute is the case interval = 0);
\* abandon after an hour, else one retry less
Request_Fail ==
    /\ pc = "request"
    /\ reply = <<>>
    /\ LET t == Max(now, reqAt + interval)
       IN  /\ now' = t
           /\ IF t - dpy.StartedAt > Hour
              THEN /\ dpy' = [dpy EXCEPT !.State = stateError, !.ErrorAt = t,
                                         !.Error = "abandoned"]
                   /\ hst' = [hst EXCEPT !.State = stateError,
                                         !.LastErrorAt = t,
                                         !.LastErrorPlaybook = ""]
                   /\ pc' = "deferSync"
                   /\ UNCHANGED retries
              ELSE /\ retries' = retries - 1
                   /\ pc' = "loop"
                   /\ UNCHANGED <<dpy, hst>>
    /\ UNCHANGED <<R, interval, reqAt, requests, ctxErr, ctxDeadline, sub1,
                   sub2, done, ackedCh>>
    /\ UNCHANGED busVars
    /\ UNCHANGED storeVars
    /\ UNCHANGED discVars
    /\ UNCHANGED apiVars
    /\ UNCHANGED agentVars
    /\ UNCHANGED codecVars
    /\ UNCHANGED syncVars

\* lines 119-139: sync, context with the 30 minute deadline, both subscriptions
Start_Subscribe ==
    /\ pc = "afterloop"
    /\ onSync(onSyncFn, hst, dpy)
    /\ ctxDeadline' = now + maxDeployTime
    /\ sub1' = TRUE
    /\ sub2' = TRUE
    /\ pc' = "wait"
    /\ UNCHANGED <<now, dpy, hst, retries, R, interval, reqAt, requests,
                   ctxErr, done, ackedCh>>
    /\ UNCHANGED busVars
    /\ UNCHANGED discVars
    /\ UNCHANGED apiVars
    /\ UNCHANGED agentVars
    /\ UNCHANGED codecVars
    /\ UNCHANGED syncVars

\* context.WithTimeout: the deadline passes before any cancel
Ctx_Deadline ==
    /\ pc = "wait"
    /\ ctxErr = ""
    /\ now' = Max(now, ctxDeadline)
    /\ ctxErr' = "deadline"
    /\ UNCHANGED <<dpy, hst, retries, R, interval, pc, reqAt, requests,
                   ctxDeadline, sub1, sub2, done, ackedCh>>
    /\ UNCHANGED busVars
    /\ UNCHANGED storeVars
    /\ UNCHANGED discVars
    /\ UNCHANGED apiVars
    /\ UNCHANGED agentVars
    /\ UNCHANGED codecVars
    /\ UNCHANGED syncVars

\* lines 139-140: <-ctx.Done() returns, deferred sub2.Unsubscribe()
Start_Unsub2 ==
    /\ pc = "wait"
    /\ ctxErr # ""
    /\ sub2' = FALSE
    /\ queue2' = <<>>
    /\ pc' = "unsub1"
    /\ UNCHANGED <<now, dpy, hst, retries, R, interval, reqAt, requests,
                   ctxErr, ctxDeadline, sub1, done, ackedCh>>
    /\ UNCHANGED <<queue1, cb1, cb2, published, reply>>
    /\ UNCHANGED storeVars
    /\ UNCHANGED discVars
    /\ UNCHANGED apiVars
    /\ UNCHANGED agentVars
    /\ UNCHANGED codecVars
    /\ UNCHANGED syncVars

\* line 129: deferred sub1.Unsubscribe()
Start_Unsub1 ==
    /\ pc = "unsub1"
    /\ sub1' = FALSE
    /\ queue1' = <<>>
    /\ pc' = "deferSync"
    /\ UNCHANGED <<now, dpy, hst, retries, R, interval, reqAt, requests,
                   ctxErr, ctxDeadline, sub2, done, ackedCh>>
    /\ UNCHANGED <<queue2, cb1, cb2, published, reply>>
    /\ UNCHANGED storeVars
    /\ UNCHANGED discVars
    /\ UNCHANGED apiVars
    /\ UNCHANGED agentVars
    /\ UNCHANGED codecVars
    /\ UNCHANGED syncVars

\* line 79: deferred dpy.onSync(dpy.hst, dpy)
Start_DeferSync ==
    /\ pc = "deferSync"
    /\ onSync(deferredFn, hst, dpy)
    /\ pc' = "deferFinish"
    /\ UNCHANGED <<now, dpy, hst, retries, R, interval, reqAt, requests,
                   ctxErr, ctxDeadline, sub1, sub2, done, ackedCh>>
    /\ UNCHANGED busVars
    /\ UNCHANGED discVars
    /\ UNCHANGED apiVars
    /\ UNCHANGED agentVars
    /\ UNCHANGED codecVars
    /\ UNCHANGED syncVars

\* line 78: deferred dpy.FinishedAt = time.Now()
Start_DeferFinish ==
    /\ pc = "deferFinish"
    /\ dpy' = [dpy EXCEPT !.FinishedAt = now]
    /\ pc' = "deferClose"
    /\ UNCHANGED <<now, hst, retries, R, interval, reqAt, requests, ctxErr,
                   ctxDeadline, sub1, sub2, done, ackedCh>>
    /\ UNCHANGED busVars
    /\ UNCHANGED storeVars
    /\ UNCHANGED discVars
    /\ UNCHANGED apiVars
    /\ UNCHANGED agentVars
    /\ UNCHANGED codecVars
    /\ UNCHANGED syncVars

\* line 77: deferred close(dpy.done)
Start_DeferClose ==
    /\ pc = "deferClose"
    /\ done' = TRUE
    /\ pc' = "done"
    /\ UNCHANGED <<now, dpy, hst, retries, R, interval, reqAt, requests,
                   ctxErr, ctxDeadline, sub1, sub2, ackedCh>>
    /\ UNCHANGED busVars
    /\ UNCHANGED storeVars
    /\ UNCHANGED discVars
    /\ UNCHANGED apiVars
    /\ UNCHANGED agentVars
    /\ UNCHANGED codecVars
    /\ UNCHANGED syncVars

----------------------------------------------------------------------------
(* The agent's terminal messages and the two subscription callbacks.  Each *)
(* subscription delivers on its own goroutine, one message at a time; a    *)
(* message published while nobody is subscribed is dropped; Unsubscribe    *)
(* drops what is still queued but does not wait for a running callback.    *)

\* the agent has published its ack and Start has not yet subscribed to the
\* outcome topics (part_002 lines 96-122; main.go lines 50-64)
AckedNotSubscribed ==
    /\ pc \in {"request", "afterloop"}
    /\ reply # <<>> \/ hst.LastAckedAt # ZeroTime

\* the output of a job the agent ran for an earlier Deploy to the same host
EarlierOutput == "earlier"

\* nc.Publish("nansible.<host>.playbook.success", out) by the agent, queued
\* for the Deploy only while its success subscription is active; published
\* between the ack and the subscription it has no subscriber and is dropped
Agent_PublishSuccess ==
    /\ published < MaxPublished
    /\ sub1 \/ AckedNotSubscribed
    /\ published' = published + 1
    /\ queue1' = IF sub1 THEN Append(queue1, Output(published + 1)) ELSE queue1
    /\ UNCHANGED <<now, ackedCh, queue2, cb1, cb2, reply>>
    /\ UNCHANGED startVars
    /\ UNCHANGED storeVars
    /\ UNCHANGED discVars
    /\ UNCHANGED apiVars
    /\ UNCHANGED agentVars
    /\ UNCHANGED codecVars
    /\ UNCHANGED syncVars

\* nc.Publish("nansible.<host>.playbook.error", out) by the agent, seen by
\* the Deploy only while its error subscription is active
Agent_PublishError ==
    /\ published < MaxPublished
    /\ sub2 \/ AckedNotSubscribed
    /\ published' = published + 1
    /\ queue2' = IF sub2 THEN Append(queue2, Output(published + 1)) ELSE queue2
    /\ UNCHANGED <<now, ackedCh, queue1, cb1, cb2, reply>>
    /\ UNCHANGED startVars
    /\ UNCHANGED storeVars
    /\ UNCHANGED discVars
    /\ UNCHANGED apiVars
    /\ UNCHANGED agentVars
    /\ UNCHANGED codecVars
    /\ UNCHANGED syncVars

\* the agent finishes a job it was running for an earlier Deploy to the host
\* and publishes its output on the host's success topic, which carries no
\* Deploy ID (main.go line 64)
Agent_PublishEarlier ==
    /\ published < MaxPublished
    /\ sub1
    /\ published' = published + 1
    /\ queue1' = Append(queue1, EarlierOutput)
    /\ UNCHANGED <<now, ackedCh, queue2, cb1, cb2, reply>>
    /\ UNCHANGED startVars
    /\ UNCHANGED storeVars
    /\ UNCHANGED discVars
    /\ UNCHANGED apiVars
    /\ UNCHANGED agentVars
    /\ UNCHANGED codecVars
    /\ UNCHANGED syncVars

\* context.CancelFunc: the first of cancel and deadline decides ctx.Err()
cancel(err) == IF err = "" THEN "canceled" ELSE err

\* lines 122-128: the success callback, statement by statement
SuccessCallback ==
    /\ \/ /\ cb1.pc = "idle"
          /\ sub1
          /\ queue1 # <<>>
          /\ cb1' = [pc |-> "l124", msg |-> Head(queue1)]
          /\ queue1' = Tail(queue1)
          /\ UNCHANGED <<dpy, hst, ctxErr>>
       \/ /\ cb1.pc = "l124"
          /\ hst' = [hst EXCEPT !.LastSuccessAt = now]
          /\ cb1' = [cb1 EXCEPT !.pc = "l125"]
          /\ UNCHANGED <<dpy, ctxErr, queue1>>
       \/ /\ cb1.pc = "l125"
          /\ hst' = [hst EXCEPT !.LastSuccessPlaybook = cb1.msg]
          /\ cb1' = [cb1 EXCEPT !.pc = "l126"]
          /\ UNCHANGED <<dpy, ctxErr, queue1>>
       \/ /\ cb1.pc = "l126"
          /\ dpy' = [dpy EXCEPT !.State = stateSuccess]
          /\ cb1' = [cb1 EXCEPT !.pc = "l127"]
          /\ UNCHANGED <<hst, ctxErr, queue1>>
       \/ /\ cb1.pc = "l127"
          /\ hst' = [hst EXCEPT !.State = stateSuccess]
          /\ ctxErr' = cancel(ctxErr)
          /\ cb1' = [pc |-> "idle", msg |-> ""]
          /\ UNCHANGED <<dpy, queue1>>
    /\ UNCHANGED <<now, retries, R, interval, pc, reqAt, requests,
                   ctxDeadline, sub1, sub2, done, ackedCh>>
    /\ UNCHANGED <<queue2, cb2, published, reply>>
    /\ UNCHANGED storeVars
    /\ UNCHANGED discVars
    /\ UNCHANGED apiVars
    /\ UNCHANGED agentVars
    /\ UNCHANGED codecVars
    /\ UNCHANGED syncVars

\* lines 131-138: the error callback, statement by statement
ErrorCallback ==
    /\ \/ /\ cb2.pc = "idle"
          /\ sub2
          /\ queue2 # <<>>
          /\ cb2' = [pc |-> "l133", msg |-> Head(queue2)]
          /\ queue2' = Tail(queue2)
          /\ UNCHANGED <<dpy, hst, ctxErr>>
       \/ /\ cb2.pc = "l133"
          /\ hst' = [hst EXCEPT !.LastErrorAt = now]
          /\ cb2' = [cb2 EXCEPT !.pc = "l134"]
          /\ UNCHANGED <<dpy, ctxErr, queue2>>
       \/ /\ cb2.pc = "l134"
          /\ hst' = [hst EXCEPT !.LastErrorPlaybook = cb2.msg]
          /\ cb2' = [cb2 EXCEPT !.pc = "l135"]
          /\ UNCHANGED <<dpy, ctxErr, queue2>>
       \/ /\ cb2.pc = "l135"
          /\ dpy' = [dpy EXCEPT !.Error = "host error"]
          /\ cb2' = [cb2 EXCEPT !.pc = "l136"]
          /\ UNCHANGED <<hst, ctxErr, queue2>>
       \/ /\ cb2.pc = "l136"
          /\ dpy' = [dpy EXCEPT !.State = stateError]
          /\ cb2' = [cb2 EXCEPT !.pc = "l137"]
          /\ UNCHANGED <<hst, ctxErr, queue2>>
       \/ /\ cb2.pc = "l137"
          /\ hst' = [hst EXCEPT !.State = stateError]
          /\ ctxErr' = cancel(ctxErr)
          /\ cb2' = [pc |-> "idle", msg |-> ""]
          /\ UNCHANGED <<dpy, queue2>>
    /\ UNCHANGED <<now, retries, R, interval, pc, reqAt, requests,
                   ctxDeadline, sub1, sub2, done, ackedCh>>
    /\ UNCHANGED <<queue1, cb1, published, reply>>
    /\ UNCHANGED storeVars
    /\ UNCHANGED discVars
    /\ UNCHANGED apiVars
    /\ UNCHANGED agentVars
    /\ UNCHANGED codecVars
    /\ UNCHANGED syncVars

----------------------------------------------------------------------------
(* deploy.Acked: the goroutine polling AckedAt and ErrorAt *)

\* line 59: the condition under which the poller leaves its loop
AckedReady == ~(dpy.AckedAt = ZeroTime /\ dpy.ErrorAt = ZeroTime)

\* lines 58-63: the loop ends and the channel is closed
Acked_Close ==
    /\ ~ackedCh
    /\ AckedReady
    /\ ackedCh' = TRUE
    /\ UNCHANGED now
    /\ UNCHANGED startVars
    /\ UNCHANGED busVars
    /\ UNCHANGED storeVars
    /\ UNCHANGED discVars
    /\ UNCHANGED apiVars
    /\ UNCHANGED agentVars
    /\ UNCHANGED codecVars
    /\ UNCHANGED syncVars

----------------------------------------------------------------------------
(* Server.identifyHosts / Server.identifyAndSave *)

RECURSIVE SeqsUpTo(_, _)
SeqsUpTo(S, n) ==
    IF n = 0 THEN {<<>>}
    ELSE LET shorter == SeqsUpTo(S, n - 1)
         IN  shorter \cup {Append(q, x) : q \in shorter, x \in S}

\* lines 18-41: ping, collect the pongs of the 2s window into `hosts`
Discovery_Collect ==
    /\ dpc = "collect"
    /\ cycles < MaxCycles
    /\ cycles' = cycles + 1
    /\ now' = Max(now, wakeAt)
    /\ collected' \in SeqsUpTo(HostIds, MaxPongs)
    /\ dpc' = "save"
    /\ UNCHANGED <<logged, ackedCh, wakeAt>>
    /\ UNCHANGED startVars
    /\ UNCHANGED busVars
    /\ UNCHANGED storeVars
    /\ UNCHANGED apiVars
    /\ UNCHANGED agentVars
    /\ UNCHANGED codecVars
    /\ UNCHANGED syncVars

\* an error that ends the loop over `hosts`
RestAfterReturn(hosts, failed) == IF failed THEN <<>> ELSE Tail(hosts)

\* lines 47, 54, 66: after an iteration, failed or not, the range statement
\* goes on with the rest of `hosts`
RestOfRange(hosts, failed) == Tail(hosts)

\* lines 43-67: one iteration of the loop over `hosts`
Discovery_SaveHost ==
    /\ dpc = "save"
    /\ collected # <<>>
    /\ LET h == Head(collected)
       IN  \E existsErr, saveErr \in BOOLEAN :
             IF existsErr
             THEN /\ logged' = TRUE
                  /\ UNCHANGED <<hostsDB, hostsIndex>>
             ELSE IF Exists(hostsDB, h)
             THEN IF saveErr
                  THEN /\ logged' = TRUE
                       /\ UNCHANGED <<hostsDB, hostsIndex>>
                  ELSE /\ hostsDB' = SaveFieldsLastSeenAt(hostsDB, h,
                                        host(h, stateNew, now))
                       /\ hostsIndex' = hostsIndex \cup {h}
                       /\ logged' = FALSE
             ELSE IF saveErr
                  THEN /\ logged' = TRUE
                       /\ UNCHANGED <<hostsDB, hostsIndex>>
                  ELSE /\ hostsDB' = Save(hostsDB, h, host(h, stateNew, now))
                       /\ hostsIndex' = hostsIndex \cup {h}
                       /\ logged' = FALSE
    /\ collected' = RestOfRange(collected, logged')
    /\ UNCHANGED <<now, ackedCh, dpc, cycles, wakeAt, deploysDB, syncLog>>
    /\ UNCHANGED startVars
    /\ UNCHANGED busVars
    /\ UNCHANGED apiVars
    /\ UNCHANGED agentVars
    /\ UNCHANGED codecVars
    /\ UNCHANGED syncVars

\* bus.go lines 12-13: identifyAndSave returns, the loop sleeps a minute
Discovery_Sleep ==
    /\ dpc = "save"
    /\ collected = <<>>
    /\ wakeAt' = now + Minute
    /\ dpc' = "collect"
    /\ UNCHANGED <<now, logged, ackedCh, collected, cycles>>
    /\ UNCHANGED startVars
    /\ UNCHANGED busVars
    /\ UNCHANGED storeVars
    /\ UNCHANGED apiVars
    /\ UNCHANGED agentVars
    /\ UNCHANGED codecVars
    /\ UNCHANGED syncVars

----------------------------------------------------------------------------
(* The dispatcher: Server.handleHostDeploy, Server.handleDeployGroup,      *)
(* Server.handleRunningDeploys behind gin.Default(), whose Recovery        *)
(* middleware answers 500 when a handler panics.  Requests are the ones    *)
(* Server.requestAuthorizer lets through.                                  *)

\* `var h *host`, `var pb *playbook`, `var g *group`: declared, not allocated
modelPtr == NilPtr

\* gin's c.Param: the value of the named route parameter, "" when the route
\* has no parameter of that name
Param(params, key) == IF key \in DOMAIN params THEN params[key] ELSE ""

\* Collection.Find(id, model): the model's type is checked, model.SetModelID(id)
\* stores the id through the pointer (a nil pointer panics there), then EXISTS
\* and HMGET; a missing record and a failing connection are errors
Find(db, id, model, typeOk, connErr) ==
    IF ~typeOk THEN "error"
    ELSE IF model = NilPtr THEN "panic"
    ELSE IF connErr THEN "error"
    ELSE IF id \notin DOMAIN db THEN "error"
    ELSE IF db[id] = NoRecord THEN "error"
    ELSE "ok"

\* m[k] = v of a Go map
Put(m, k, v) == [x \in DOMAIN m \cup {k} |-> IF x = k THEN v ELSE m[x]]

response(handler, arg, code, errs, started, ids) ==
    [handler |-> handler, arg |-> arg, code |-> code, errors |-> errs,
     started |-> started, ids |-> ids]

\* the answer of gin's Recovery middleware to a panic in the handler
recovered(handler, arg) == response(handler, arg, 500, <<>>, <<>>, <<>>)

\* the Deploy was started and has not finished
Active(d) == d.FinishedAt = ZeroTime

\* handleDeployGroup lines 137-159: the loop over g.Hosts.  acc carries res,
\* svr.running, the started deploys and the deploys collection.
RECURSIVE FanOut(_, _, _, _, _)
FanOut(hostnames, pbName, findFails, saveFails, acc) ==
    IF hostnames = <<>> \/ acc.panic THEN acc
    ELSE LET hostname == Head(hostnames)
             h    == modelPtr
             r    == Find(hostsDB, hostname, h, TRUE, hostname \in findFails)
             dply == newDeploy(hostsDB[hostname], pbName)
             next ==
                 IF r = "panic" THEN [acc EXCEPT !.panic = TRUE]
                 ELSE IF r = "error"
                 THEN [acc EXCEPT !.errors = Put(acc.errors, hostname, "find")]
                 ELSE IF hostname \in saveFails
                 THEN [acc EXCEPT !.errors = Put(acc.errors, hostname, "save")]
                 ELSE [acc EXCEPT
                         !.deploysDB = Save(acc.deploysDB, dply.ID, dply),
                         !.deploys = Append(acc.deploys, dply),
                         !.running = Append(acc.running, Len(acc.deploys) + 1),
                         !.started = Put(acc.started, hostname, dply.ID)]
         IN  FanOut(Tail(hostnames), pbName, findFails, saveFails, next)

\* PUT /groups/:name/deploy
handleDeployGroup ==
    /\ Len(responses) < MaxRequests
    /\ \E name \in GroupNames :
         LET g  == modelPtr
             r1 == Find(groupsDB, name, g, TRUE, FALSE)
         IN  IF r1 = "panic"
             THEN /\ responses' = Append(responses, recovered("group", name))
                  /\ UNCHANGED <<deploys, running, deploysDB>>
             ELSE \E connErr \in BOOLEAN, findFails, saveFails \in SUBSET HostIds :
                    LET r1c == Find(groupsDB, name, g, TRUE, connErr)
                        grp == groupsDB[name]
                        pb  == modelPtr
                        r2  == Find(playbooksDB, grp.Playbook, pb, TRUE, FALSE)
                        res == FanOut(grp.Hosts, grp.Playbook, findFails, saveFails,
                                      [errors |-> <<>>, started |-> <<>>,
                                       deploys |-> deploys, running |-> running,
                                       deploysDB |-> deploysDB, panic |-> FALSE])
                        code == IF DOMAIN res.started = {} THEN 500 ELSE 202
                    IN  IF r1c = "error"
                        THEN /\ responses' = Append(responses,
                                    response("group", name, 500, <<>>, <<>>, <<>>))
                             /\ UNCHANGED <<deploys, running, deploysDB>>
                        ELSE IF grp.Playbook = ""
                        THEN /\ responses' = Append(responses,
                                    response("group", name, 400, <<>>, <<>>, <<>>))
                             /\ UNCHANGED <<deploys, running, deploysDB>>
                        ELSE IF r2 = "panic"
                        THEN /\ responses' = Append(responses, recovered("group", name))
                             /\ UNCHANGED <<deploys, running, deploysDB>>
                        ELSE IF r2 = "error"
                        THEN /\ responses' = Append(responses,
                                    response("group", name, 500, <<>>, <<>>, <<>>))
                             /\ UNCHANGED <<deploys, running, deploysDB>>
                        ELSE /\ deploys' = res.deploys
                             /\ running' = res.running
                             /\ deploysDB' = res.deploysDB
                             /\ responses' = Append(responses,
                                    IF res.panic THEN recovered("group", name)
                                    ELSE response("group", name, code, res.errors,
                                                  res.started, <<>>))
    /\ UNCHANGED <<now, ackedCh, groupsDB, playbooksDB, hostsDB, hostsIndex, syncLog>>
    /\ UNCHANGED startVars
    /\ UNCHANGED busVars
    /\ UNCHANGED discVars
    /\ UNCHANGED agentVars
    /\ UNCHANGED codecVars
    /\ UNCHANGED syncVars

\* PUT /hosts/:host/deploy/:playbook
handleHostDeploy ==
    /\ Len(responses) < MaxRequests
    /\ \E hostname \in HostIds, pbId \in PlaybookIds :
         LET params == [host |-> hostname, playbook |-> pbId]
             name == Param(params, "name")
             h    == modelPtr
             r1   == Find(hostsDB, name, h, TRUE, FALSE)
         IN  IF r1 = "panic"
             THEN /\ responses' = Append(responses, recovered("host", hostname))
                  /\ UNCHANGED <<deploys, deploysDB>>
             ELSE \E connErr, saveErr \in BOOLEAN :
                    LET r1c  == Find(hostsDB, name, h, TRUE, connErr)
                        \* line 56 hands the host pointer to the playbooks collection
                        r2   == Find(playbooksDB, Param(params, "playbook"), h,
                                     FALSE, FALSE)
                        dply == newDeploy(hostsDB[name], pbId)
                    IN  IF r1c = "error" \/ r2 = "error" \/ saveErr
                        THEN /\ responses' = Append(responses,
                                    response("host", hostname, 500, <<>>, <<>>, <<>>))
                             /\ UNCHANGED <<deploys, deploysDB>>
                        ELSE \* lines 67-79: Start is launched, the handler waits
                             \* on Acked() and answers 504 or 202
                             /\ deploysDB' = Save(deploysDB, dply.ID, dply)
                             /\ deploys' = Append(deploys, dply)
                             /\ \E code \in {504, 202} :
                                  responses' = Append(responses,
                                    response("host", hostname, code, <<>>, <<>>, <<>>))
    /\ UNCHANGED <<now, ackedCh, groupsDB, playbooksDB, running, hostsDB,
                   hostsIndex, syncLog>>
    /\ UNCHANGED startVars
    /\ UNCHANGED busVars
    /\ UNCHANGED discVars
    /\ UNCHANGED agentVars
    /\ UNCHANGED codecVars
    /\ UNCHANGED syncVars

\* the ids collected by the loop of handleRunningDeploys, lines 170-174
RECURSIVE RunningIds(_)
RunningIds(ptrs) ==
    IF ptrs = <<>> THEN <<>>
    ELSE IF deploys[Head(ptrs)].FinishedAt = ZeroTime
         THEN <<deploys[Head(ptrs)].ID>> \o RunningIds(Tail(ptrs))
         ELSE RunningIds(Tail(ptrs))

\* GET /deploys/:name/running
handleRunningDeploys ==
    /\ Len(responses) < MaxRequests
    /\ \E name \in GroupNames :
         responses' = Append(responses,
             response("running", name, 200, <<>>, <<>>, RunningIds(running)))
    /\ UNCHANGED <<now, ackedCh, groupsDB, playbooksDB, deploys, running>>
    /\ UNCHANGED startVars
    /\ UNCHANGED busVars
    /\ UNCHANGED storeVars
    /\ UNCHANGED discVars
    /\ UNCHANGED agentVars
    /\ UNCHANGED codecVars
    /\ UNCHANGED syncVars

\* The store as the requests find it: groups with any assigned playbook and
\* any list of member hosts, playbook pb1, host h1.
DispatchInit ==
    /\ StartInit
    /\ R = MaxRetries
    /\ interval = 0
    /\ groupsDB \in [GroupNames ->
          {NoRecord} \cup {group("g1", p, hs) :
                              p \in {"", ThePlaybook, "pb2"},
                              hs \in SeqsUpTo(HostIds, MaxGroupHosts)}]
    /\ playbooksDB = [p \in PlaybookIds |->
                        IF p = ThePlaybook THEN playbook(p) ELSE NoRecord]
    /\ deploys = <<>>
    /\ running = <<>>
    /\ responses = <<>>
    /\ AgentIdle
    /\ CodecIdle

DispatchNext ==
    \/ handleHostDeploy
    \/ handleDeployGroup
    \/ handleRunningDeploys

DispatchSpec == DispatchInit /\ [][DispatchNext]_vars

----------------------------------------------------------------------------
(* The agent: cmd/nansible main.  Job messages reach the loop through the  *)
(* unbuffered channel `msgs` of a channel subscription, which takes a      *)
(* message only while the loop is waiting in `range msgs`; a message that  *)
(* arrives at any other moment is dropped by the subscription, and so is a *)
(* message published after the process has exited.                         *)

pub(subject, job, data) == [subject |-> subject, job |-> job, data |-> data]

\* md5PB, line 98
md5PB(in) == ""

\* decryptPlaybook, line 102
decryptPlaybook(data) == data

\* a requester publishes a job message on nansible.<host>.playbook
Bus_Job ==
    /\ jobsSent < MaxJobs
    /\ jobsSent' = jobsSent + 1
    /\ \E wf \in BOOLEAN, p \in PlaybookIds :
         LET m == IF wf
                  THEN [id |-> jobsSent + 1, wellFormed |-> TRUE,
                        Playbook |-> playbook(p).Name,
                        Payload |-> EncryptedString(playbook(p), TheHost)]
                  ELSE [NoMsg EXCEPT !.id = jobsSent + 1]
         IN  IF agentPc = "range"
             THEN /\ agentMsg' = m
                  /\ agentPc' = "parse"
                  /\ UNCHANGED dropped
             ELSE /\ dropped' = Append(dropped, [id |-> m.id, at |-> agentPc])
                  /\ UNCHANGED <<agentMsg, agentPc>>
    /\ UNCHANGED <<agentPub, dp, dpRecv, proc, cancels, returns>>
    /\ UNCHANGED <<now, ackedCh, yml>>
    /\ UNCHANGED startVars
    /\ UNCHANGED busVars
    /\ UNCHANGED storeVars
    /\ UNCHANGED discVars
    /\ UNCHANGED apiVars
    /\ UNCHANGED codecVars
    /\ UNCHANGED syncVars

\* line 23: the ping subscription's callback, on its own goroutine
Agent_Pong ==
    /\ agentPc # "crashed"
    /\ Len(SelectSeq(agentPub, LAMBDA m : m.subject = "pong")) < MaxPings
    /\ agentPub' = Append(agentPub, pub("pong", 0, TheHost))
    /\ UNCHANGED <<dropped, jobsSent, agentMsg, agentPc, dp, dpRecv, proc,
                   cancels, returns>>
    /\ UNCHANGED <<now, ackedCh, yml>>
    /\ UNCHANGED startVars
    /\ UNCHANGED busVars
    /\ UNCHANGED storeVars
    /\ UNCHANGED discVars
    /\ UNCHANGED apiVars
    /\ UNCHANGED codecVars
    /\ UNCHANGED syncVars

\* lines 40-42 without the `continue` of line 43: empty reply, then the job
Agent_ParseFail_NoContinue ==
    /\ agentPc = "parse"
    /\ ~agentMsg.wellFormed
    /\ agentPub' = Append(agentPub, pub("reply", agentMsg.id, ""))
    /\ dpRecv' = dp
    /\ agentPc' = "deploy"
    /\ UNCHANGED <<dropped, jobsSent, agentMsg, dp, proc, cancels, returns>>
    /\ UNCHANGED <<now, ackedCh, yml>>
    /\ UNCHANGED startVars
    /\ UNCHANGED busVars
    /\ UNCHANGED storeVars
    /\ UNCHANGED discVars
    /\ UNCHANGED apiVars
    /\ UNCHANGED codecVars
    /\ UNCHANGED syncVars

\* lines 40-44: ParseNanMsg fails: empty reply, continue
Agent_ParseFail ==
    /\ agentPc = "parse"
    /\ ~agentMsg.wellFormed
    /\ agentPub' = Append(agentPub, pub("reply", agentMsg.id, ""))
    /\ agentPc' = "range"
    /\ UNCHANGED <<dropped, jobsSent, agentMsg, dp, dpRecv, proc, cancels,
                   returns>>
    /\ UNCHANGED <<now, ackedCh, yml>>
    /\ UNCHANGED startVars
    /\ UNCHANGED busVars
    /\ UNCHANGED storeVars
    /\ UNCHANGED discVars
    /\ UNCHANGED apiVars
    /\ UNCHANGED codecVars
    /\ UNCHANGED syncVars

\* lines 52-53 before lines 46-50: the job is handed to Deploy, unacknowledged
Agent_DeployBeforeAck ==
    /\ agentPc = "parse"
    /\ agentMsg.wellFormed
    /\ yml' = decryptPlaybook(agentMsg.Playbook)
    /\ dpRecv' = dp
    /\ agentPc' = "deploy"
    /\ UNCHANGED <<dropped, jobsSent, agentMsg, agentPub, dp, proc, cancels,
                   returns>>
    /\ UNCHANGED <<now, ackedCh>>
    /\ UNCHANGED startVars
    /\ UNCHANGED busVars
    /\ UNCHANGED storeVars
    /\ UNCHANGED discVars
    /\ UNCHANGED apiVars
    /\ UNCHANGED codecVars
    /\ UNCHANGED syncVars

\* lines 46-53: decrypt, checksum, publish the ack, call dp.Deploy(pb); the
\* value receiver of Deploy is a copy of dp
Agent_Ack ==
    /\ agentPc = "parse"
    /\ agentMsg.wellFormed
    /\ LET pb  == decryptPlaybook(agentMsg.Playbook)
           sum == md5PB(pb)
       IN  /\ agentPub' = Append(agentPub, pub("reply", agentMsg.id, sum))
           /\ yml' = pb
    /\ dpRecv' = dp
    /\ agentPc' = "deploy"
    /\ UNCHANGED <<dropped, jobsSent, agentMsg, dp, proc, cancels, returns>>
    /\ UNCHANGED <<now, ackedCh>>
    /\ UNCHANGED startVars
    /\ UNCHANGED busVars
    /\ UNCHANGED storeVars
    /\ UNCHANGED discVars
    /\ UNCHANGED apiVars
    /\ UNCHANGED codecVars
    /\ UNCHANGED syncVars

----------------------------------------------------------------------------
(* deployer.Deploy and deployer.Cancel *)

\* line 82: dp.mu.Lock(); a nil *sync.Mutex panics, and the panic ends the
\* goroutine's process
Deploy_Lock ==
    /\ agentPc = "deploy"
    /\ agentPc' = IF dpRecv.mu = NilPtr THEN "crashed" ELSE "start"
    /\ UNCHANGED <<dropped, jobsSent, agentMsg, agentPub, dp, dpRecv, proc,
                   cancels, returns>>
    /\ UNCHANGED <<now, ackedCh, yml>>
    /\ UNCHANGED startVars
    /\ UNCHANGED busVars
    /\ UNCHANGED storeVars
    /\ UNCHANGED discVars
    /\ UNCHANGED apiVars
    /\ UNCHANGED codecVars
    /\ UNCHANGED syncVars

\* lines 85-92: cmd.Start(), whose error is overwritten at line 94;
\* dp.curr = cmd.Process assigns to the receiver copy
Deploy_Start ==
    /\ agentPc = "start"
    /\ \E launched \in BOOLEAN :
         /\ proc' = IF launched THEN "running" ELSE "failed"
         /\ dpRecv' = [dpRecv EXCEPT !.curr = IF launched THEN Allocated
                                                ELSE NilPtr]
    /\ agentPc' = "wait"
    /\ UNCHANGED <<dropped, jobsSent, agentMsg, agentPub, dp, cancels, returns>>
    /\ UNCHANGED <<now, ackedCh, yml>>
    /\ UNCHANGED startVars
    /\ UNCHANGED busVars
    /\ UNCHANGED storeVars
    /\ UNCHANGED discVars
    /\ UNCHANGED apiVars
    /\ UNCHANGED codecVars
    /\ UNCHANGED syncVars

\* the ansible-playbook process ends by itself
Process_Exit ==
    /\ proc = "running"
    /\ proc' \in {"exit0", "exit1"}
    /\ UNCHANGED <<dropped, jobsSent, agentMsg, agentPc, agentPub, dp, dpRecv,
                   cancels, returns>>
    /\ UNCHANGED <<now, ackedCh, yml>>
    /\ UNCHANGED startVars
    /\ UNCHANGED busVars
    /\ UNCHANGED storeVars
    /\ UNCHANGED discVars
    /\ UNCHANGED apiVars
    /\ UNCHANGED codecVars
    /\ UNCHANGED syncVars

\* lines 94-95 and the deferred Unlock: cmd.Wait() returns, Deploy returns
Deploy_Wait ==
    /\ agentPc = "wait"
    /\ proc \in {"failed", "exit0", "exit1", "killed"}
    /\ returns' = Append(returns, [err |-> proc # "exit0"])
    /\ proc' = "none"
    /\ agentPc' = "returned"
    /\ UNCHANGED <<dropped, jobsSent, agentMsg, agentPub, dp, dpRecv, cancels>>
    /\ UNCHANGED <<now, ackedCh, yml>>
    /\ UNCHANGED startVars
    /\ UNCHANGED busVars
    /\ UNCHANGED storeVars
    /\ UNCHANGED discVars
    /\ UNCHANGED apiVars
    /\ UNCHANGED codecVars
    /\ UNCHANGED syncVars

\* a caller of the deployer calls dp.Deploy(yml)
Deploy_Call ==
    /\ agentPc \in {"idle", "returned"}
    /\ Len(returns) < MaxCalls
    /\ yml' \in {playbook(p).Data : p \in PlaybookIds}
    /\ dpRecv' = dp
    /\ agentPc' = "deploy"
    /\ UNCHANGED <<dropped, jobsSent, agentMsg, agentPub, dp, proc, cancels,
                   returns>>
    /\ UNCHANGED <<now, ackedCh>>
    /\ UNCHANGED startVars
    /\ UNCHANGED busVars
    /\ UNCHANGED storeVars
    /\ UNCHANGED discVars
    /\ UNCHANGED apiVars
    /\ UNCHANGED codecVars
    /\ UNCHANGED syncVars

\* lines 73-79: Cancel, on another goroutine, works on its own copy of dp
Cancel ==
    /\ Len(cancels) < MaxCancels
    /\ agentPc # "crashed"
    /\ LET recv == dp
       IN  IF recv.curr = NilPtr
           THEN /\ cancels' = Append(cancels, [running |-> proc = "running",
                                               signalled |-> FALSE])
                /\ UNCHANGED proc
           ELSE /\ cancels' = Append(cancels, [running |-> proc = "running",
                                               signalled |-> TRUE])
                /\ proc' = IF proc = "running" THEN "killed" ELSE proc
    /\ UNCHANGED <<dropped, jobsSent, agentMsg, agentPc, agentPub, dp, dpRecv,
                   returns>>
    /\ UNCHANGED <<now, ackedCh, yml>>
    /\ UNCHANGED startVars
    /\ UNCHANGED busVars
    /\ UNCHANGED storeVars
    /\ UNCHANGED discVars
    /\ UNCHANGED apiVars
    /\ UNCHANGED codecVars
    /\ UNCHANGED syncVars

\* main, line 37: dp := deployer{}
AgentInit ==
    /\ StartInit
    /\ R = MaxRetries
    /\ interval = 0
    /\ ApiIdle
    /\ AgentIdle
    /\ CodecIdle

AgentNext ==
    \/ Bus_Job
    \/ Agent_Pong
    \/ Agent_ParseFail
    \/ Agent_Ack
    \/ Deploy_Lock

AgentSpec == AgentInit /\ [][AgentNext]_vars

\* a deployer value, with or without its mutex, and callers of its methods
DeployerInit ==
    /\ StartInit
    /\ R = MaxRetries
    /\ interval = 0
    /\ ApiIdle
    /\ dropped = <<>>
    /\ jobsSent = 0
    /\ agentMsg = NoMsg
    /\ agentPc = "idle"
    /\ agentPub = <<>>
    /\ dp \in {deployer(mu, NilPtr) : mu \in {NilPtr, Allocated}}
    /\ dpRecv = dp
    /\ proc = "none"
    /\ cancels = <<>>
    /\ returns = <<>>
    /\ yml = ""
    /\ CodecIdle

DeployerNext ==
    \/ Deploy_Call
    \/ Deploy_Lock
    \/ Deploy_Start
    \/ Process_Exit
    \/ Deploy_Wait
    \/ Cancel

DeployerSpec == DeployerInit /\ [][DeployerNext]_vars

----------------------------------------------------------------------------
(* handleHostDeploy from line 61: the Deploy is built and saved, Start is   *)
(* launched with the callback of newDeploy, the handler waits on Acked()   *)

\* part_001 lines 68-79: Acked() is released; 504 with the Deploy's error if
\* ErrorAt is set, otherwise OnSync installs the persistence callback and the
\* request is answered 202 with the Deploy's ID
handleHostDeploy_Acked ==
    /\ ackedCh
    /\ responses = <<>>
    /\ IF dpy.ErrorAt # ZeroTime
       THEN /\ responses' = <<response("host", TheHost, 504, <<dpy.Error>>,
                                       <<>>, <<>>)>>
            /\ UNCHANGED onSyncFn
       ELSE /\ onSyncFn' = "persist"
            /\ responses' = <<response("host", TheHost, 202, <<>>, <<>>,
                                       <<dpy.ID>>)>>
    /\ UNCHANGED <<now, ackedCh, deferredFn, groupsDB, playbooksDB, deploys,
                   running>>
    /\ UNCHANGED startVars
    /\ UNCHANGED busVars
    /\ UNCHANGED storeVars
    /\ UNCHANGED discVars
    /\ UNCHANGED agentVars
    /\ UNCHANGED codecVars

\* part_001 lines 61-67: newDeploy leaves the no-op callback in place
HostDeployInit ==
    /\ DeployBuilt("noop")
    /\ R > 0
    /\ ApiIdle
    /\ AgentIdle
    /\ CodecIdle

HostDeployNext ==
    \/ Start_Begin
    \/ Start_Attempt
    \/ Start_LoopExit
    \/ Agent_Reply
    \/ Request_Reply
    \/ Request_Fail
    \/ Start_Subscribe
    \/ Ctx_Deadline
    \/ Start_Unsub2
    \/ Start_Unsub1
    \/ Start_DeferSync
    \/ Start_DeferFinish
    \/ Start_DeferClose
    \/ Acked_Close
    \/ handleHostDeploy_Acked

HostDeploySpec == HostDeployInit /\ [][HostDeployNext]_vars

----------------------------------------------------------------------------
(* NansibleMessage.Bytes and ParseNanMsg: encoding/json on five string     *)
(* fields tagged omitempty.  A string is a sequence of characters, the     *)
(* encoding a sequence of bytes.                                           *)

\* the characters of a field: a letter, the quote, the backslash, and a byte
\* that is not valid UTF-8 (a Go string holds arbitrary bytes)
Quote     == "\""
Backslash == "\\"
BadByte   == "x"
Chars     == {"a", Quote, Backslash, BadByte}

\* U+FFFD, the replacement character
RuneError == "r"

\* the strings the fields are drawn from
Strs(n) == SeqsUpTo(Chars, n)

\* utf8.ValidString
ValidString(str) == \A i \in 1..Len(str) : str[i] # BadByte

\* every character written as it is, without escaping
EncodeCharRaw(c) == <<c>>

\* encoding/json, encodeState.string: the quote and the backslash are escaped,
\* an invalid byte is written as the escape � (the bytes `\`, `u` here)
EncodeChar(c) ==
    CASE c = Quote     -> <<Backslash, Quote>>
      [] c = Backslash -> <<Backslash, Backslash>>
      [] c = BadByte   -> <<Backslash, "u">>
      [] OTHER         -> <<c>>

RECURSIVE EncodeChars(_)
EncodeChars(str) ==
    IF str = <<>> THEN <<>>
    ELSE EncodeChar(Head(str)) \o EncodeChars(Tail(str))

EncodeString(str) == <<Quote>> \o EncodeChars(str) \o <<Quote>>

\* the struct tags of NansibleMessage, in field order
Fields == <<"Host", "Playbook", "Payload", "Deploy", "Error">>
Tag(f) ==
    CASE f = "Host"     -> "host"
      [] f = "Playbook" -> "playbook"
      [] f = "Payload"  -> "payload"
      [] f = "Deploy"   -> "deploy"
      [] f = "Error"    -> "error"

\* the members of the object: omitempty leaves an empty field out
RECURSIVE EncodeMembers(_, _, _)
EncodeMembers(m, i, first) ==
    IF i > Len(Fields) THEN <<>>
    ELSE IF m[Fields[i]] = <<>> THEN EncodeMembers(m, i + 1, first)
    ELSE (IF first THEN <<>> ELSE <<",">>)
         \o <<Quote, Tag(Fields[i]), Quote, ":">>
         \o EncodeString(m[Fields[i]])
         \o EncodeMembers(m, i + 1, FALSE)

\* models.go lines 65-68: json.Marshal(msg)
Marshal(m) == <<"{">> \o EncodeMembers(m, 1, TRUE) \o <<"}">>

\* encoding/json, unquote: the bytes after an opening quote, up to the closing
\* one; an escape is decoded, a raw invalid byte becomes U+FFFD
RECURSIVE DecodeString(_, _)
DecodeString(bytes, acc) ==
    IF bytes = <<>> THEN [ok |-> FALSE, str |-> acc, rest |-> <<>>]
    ELSE IF Head(bytes) = Quote
    THEN [ok |-> TRUE, str |-> acc, rest |-> Tail(bytes)]
    ELSE IF Head(bytes) = Backslash
    THEN IF Len(bytes) < 2
         THEN [ok |-> FALSE, str |-> acc, rest |-> <<>>]
         ELSE LET e == bytes[2]
                  rest == Tail(Tail(bytes))
              IN  IF e = Quote THEN DecodeString(rest, Append(acc, Quote))
                  ELSE IF e = Backslash
                  THEN DecodeString(rest, Append(acc, Backslash))
                  ELSE IF e = "u"
                  THEN DecodeString(rest, Append(acc, RuneError))
                  ELSE [ok |-> FALSE, str |-> acc, rest |-> <<>>]
    ELSE IF Head(bytes) = BadByte
    THEN DecodeString(Tail(bytes), Append(acc, RuneError))
    ELSE DecodeString(Tail(bytes), Append(acc, Head(bytes)))

\* the field a key names, "" for an unknown key
FieldOf(key) ==
    IF \E i \in 1..Len(Fields) : Tag(Fields[i]) = key
    THEN CHOOSE f \in {Fields[i] : i \in 1..Len(Fields)} : Tag(f) = key
    ELSE ""

\* encoding/json, decodeState.object: members `"key":"value"` separated by
\* commas up to the closing brace; a value is stored in the field its key names
RECURSIVE DecodeMembers(_, _)
DecodeMembers(bytes, m) ==
    IF Len(bytes) < 4 \/ bytes[1] # Quote \/ bytes[3] # Quote \/ bytes[4] # ":"
    THEN [msg |-> m, err |-> TRUE]
    ELSE LET key == bytes[2]
             val == SubSeq(bytes, 5, Len(bytes))
         IN  IF val = <<>> \/ Head(val) # Quote
             THEN [msg |-> m, err |-> TRUE]
             ELSE LET d  == DecodeString(Tail(val), <<>>)
                      m2 == IF FieldOf(key) = "" THEN m
                            ELSE [m EXCEPT ![FieldOf(key)] = d.str]
                  IN  IF ~d.ok \/ d.rest = <<>> THEN [msg |-> m, err |-> TRUE]
                      ELSE IF d.rest = <<"}">> THEN [msg |-> m2, err |-> FALSE]
                      ELSE IF Head(d.rest) = ","
                      THEN DecodeMembers(Tail(d.rest), m2)
                      ELSE [msg |-> m, err |-> TRUE]

\* models.go lines 77-81: json.Unmarshal(data, &msg) into a zero NansibleMessage
Unmarshal(bytes) ==
    LET zero == NansibleMessage(<<>>, <<>>, <<>>, <<>>)
    IN  IF bytes = <<>> \/ Head(bytes) # "{"
        THEN [msg |-> zero, err |-> TRUE]
        ELSE IF bytes = <<"{", "}">> THEN [msg |-> zero, err |-> FALSE]
        ELSE DecodeMembers(Tail(bytes), zero)

\* models.go lines 65-68: nsg.Bytes()
NansibleMessage_Bytes ==
    /\ cpc = "built"
    /\ wire' = Marshal(nsg)
    /\ cpc' = "encoded"
    /\ UNCHANGED <<nsg, parsed>>
    /\ UNCHANGED <<now, ackedCh>>
    /\ UNCHANGED startVars
    /\ UNCHANGED busVars
    /\ UNCHANGED storeVars
    /\ UNCHANGED discVars
    /\ UNCHANGED apiVars
    /\ UNCHANGED agentVars
    /\ UNCHANGED syncVars

\* models.go lines 77-81: ParseNanMsg(data)
ParseNanMsg ==
    /\ cpc = "encoded"
    /\ parsed' = Unmarshal(wire)
    /\ cpc' = "parsed"
    /\ UNCHANGED <<nsg, wire>>
    /\ UNCHANGED <<now, ackedCh>>
    /\ UNCHANGED startVars
    /\ UNCHANGED busVars
    /\ UNCHANGED storeVars
    /\ UNCHANGED discVars
    /\ UNCHANGED apiVars
    /\ UNCHANGED agentVars
    /\ UNCHANGED syncVars

\* the messages the round trip is applied to: one field ranges over every
\* string up to MaxStrLen, the three others over Samples
Samples == {<<>>, <<"a">>, <<Quote>>, <<BadByte>>}
BuiltMessages ==
    {[NansibleMessage(a, b, c, d) EXCEPT ![f] = str] :
        a \in Samples, b \in Samples, c \in Samples, d \in Samples,
        f \in {"Host", "Playbook", "Payload", "Deploy"},
        str \in Strs(MaxStrLen)}

\* a NansibleMessage built from a host, a playbook, a payload and a deploy ID
CodecInit ==
    /\ StartInit
    /\ R = MaxRetries
    /\ interval = 0
    /\ ApiIdle
    /\ AgentIdle
    /\ nsg \in BuiltMessages
    /\ wire = <<>>
    /\ parsed = NotParsed
    /\ cpc = "built"

CodecNext ==
    \/ NansibleMessage_Bytes
    \/ ParseNanMsg

CodecSpec == CodecInit /\ [][CodecNext]_vars

----------------------------------------------------------------------------
(* The Deploy with the bus and the agent's messages *)

Next ==
    \/ Start_Begin
    \/ Start_Attempt
    \/ Start_LoopExit
    \/ Agent_Reply
    \/ Request_Reply
    \/ Request_Fail
    \/ Start_Subscribe
    \/ Ctx_Deadline
    \/ Start_Unsub2
    \/ Start_Unsub1
    \/ Start_DeferSync
    \/ Start_DeferFinish
    \/ Start_DeferClose
    \/ Agent_PublishSuccess
    \/ Agent_PublishError
    \/ Agent_PublishEarlier
    \/ SuccessCallback
    \/ ErrorCallback
    \/ Acked_Close

Spec == Init /\ [][Next]_vars

(* The Deploy next to the discovery loop, both writing the hosts collection *)

DiscoveryNext ==
    \/ Start_Begin
    \/ Start_Attempt
    \/ Start_LoopExit
    \/ Agent_Reply
    \/ Request_Reply
    \/ Request_Fail
    \/ Start_Subscribe
    \/ Ctx_Deadline
    \/ Start_Unsub2
    \/ Start_Unsub1
    \/ Start_DeferSync
    \/ Start_DeferFinish
    \/ Start_DeferClose
    \/ Acked_Close
    \/ Discovery_Collect
    \/ Discovery_SaveHost
    \/ Discovery_Sleep

DiscoverySpec == Init /\ [][DiscoveryNext]_vars

----------------------------------------------------------------------------
(* Properties *)

Rank(state) ==
    CASE state = stateNew   -> 0
      [] state = stateSent  -> 1
      [] state = stateAcked -> 2
      [] OTHER              -> 3

\* a reply to a job request of this Deploy has been received
AckReceived == hst.LastAckedAt # ZeroTime

\* the step is nc.Request returning an error
FailStep == pc = "request" /\ pc' \in {"loop", "deferSync"}

\* the step is nc.Request returning a reply
ReplyStep == pc = "request" /\ reply # <<>> /\ reply' = <<>>

\* the step is one iteration of identifyAndSave's loop over the collected hosts
DiscoveryStep == dpc = "save" /\ collected # <<>> /\ collected' = Tail(collected)

\* C1: the values taken by the Deploy's state form a subsequence of New, Sent,
\* Acked, terminal: the state never moves backwards, and once it holds a
\* terminal value (Success, Error) it does not take another value.
C1_StateSubsequence ==
    [][/\ Rank(dpy'.State) >= Rank(dpy.State)
       /\ (Rank(dpy.State) = 3 => dpy'.State = dpy.State)]_vars

\* C2: when an attempt times out and more than an hour has passed since the
\* Deploy started, the Deploy goes to Error with reason "abandoned" and
\* returns, whatever retries remain; once abandoned it publishes no further
\* request and never subscribes to the success/error topics.
C2_AbandonAfterCeiling ==
    [][/\ (FailStep /\ now' - dpy.StartedAt > Hour)
            => /\ dpy'.State = stateError
               /\ dpy'.Error = "abandoned"
               /\ hst'.State = stateError
               /\ pc' = "deferSync"
       /\ dpy.Error = "abandoned"
            => /\ requests' = requests
               /\ ~sub1' /\ ~sub2'
               /\ pc' \notin {"loop", "request", "afterloop", "wait"}
               /\ dpy'.State = stateError]_vars

\* C2 witness: abandoned while two retries were left, and Start has returned
C2_Witness ==
    /\ dpy.Error = "abandoned"
    /\ retries >= 2
    /\ pc = "done"
    /\ ~AckReceived

\* C3: with R = 0 the loop is left only by a reply or by abandonment;
\* with R > 0 at most R requests are issued.
C3_ZeroRetriesForever ==
    /\ (R = 0 /\ pc \notin {"start", "loop", "request"})
          => (AckReceived \/ dpy.Error = "abandoned")
    /\ (R > 0 => requests <= R)

\* C4: the step that receives the reply sets Deploy and Host to Acked and
\* records the time and the payload of the reply in the Host's last-acked
\* fields; after a reply no further job request is published.
C4_AckStopsRetrying ==
    [][/\ ReplyStep
            => /\ dpy'.State = stateAcked
               /\ hst'.State = stateAcked
               /\ hst'.LastAckedAt = now
               /\ hst'.LastAckedPlaybook = Head(reply)
       /\ AckReceived
            => /\ requests' = requests
               /\ pc' \notin {"loop", "request"}]_vars

\* C4 witness: acked on the first attempt with retries to spare, and waiting
\* for the terminal outcome
C4_Witness ==
    /\ AckReceived
    /\ hst.LastAckedPlaybook = "sum"
    /\ requests = 1
    /\ retries >= 2
    /\ pc = "wait"

\* C5: once a success or error message has decided the outcome (its callback
\* has run and canceled the wait), no later message changes the Deploy's
\* state or any field of the Host.
C5_FirstOutcomeWins ==
    [][ctxErr = "canceled" => (dpy'.State = dpy.State /\ hst' = hst)]_vars

\* C6: when the terminal wait ends by its deadline and no success or error
\* message was published, the Deploy is in Error with reason "timeout" and
\* both subscriptions are canceled.
C6_DeadlineIsTimeoutError ==
    (pc = "done" /\ ctxErr = "deadline" /\ published = 0)
        => /\ dpy.State = stateError
           /\ dpy.Error = "timeout"
           /\ ~sub1 /\ ~sub2

\* C7: once the ack reply has been received, the channel returned by Acked()
\* is ready: the poller's loop condition no longer holds.
C7_AckReleasesWaiter == AckReceived => AckedReady

\* C8: every mutation of the Deploy's state and of its Host is followed by a
\* sync that sees it: when Start has returned and no callback is running,
\* the last sync was handed the Deploy state and the Host as they are.
C8_EveryMutationSynced ==
    (pc = "done" /\ cb1.pc = "idle" /\ cb2.pc = "idle")
        => /\ syncLog # <<>>
           /\ syncLog[Len(syncLog)].dpy.State = dpy.State
           /\ syncLog[Len(syncLog)].hst = hst

\* C9: the hosts collection holds one record per indexed identifier, and an
\* iteration of the discovery loop leaves every existing record as it was
\* except for the last-seen timestamp of the host it handles.
C9_DiscoveryTouchesLastSeenOnly ==
    /\ [](hostsIndex = {h \in HostIds : hostsDB[h] # NoRecord})
    /\ [][DiscoveryStep =>
            \A h \in HostIds :
                hostsDB[h] # NoRecord
                    => /\ hostsDB'[h] # NoRecord
                       /\ hostsDB'[h] = [hostsDB[h] EXCEPT !.LastSeenAt =
                                               hostsDB'[h].LastSeenAt]
                       /\ hostsDB'[h].LastSeenAt \in {hostsDB[h].LastSeenAt, now}
                       /\ (h # Head(collected) => hostsDB'[h] = hostsDB[h])]_vars

\* C9 witness: in the second cycle, discovery has touched the record of a
\* host whose deployment fields the Deploy had already written
C9_Witness ==
    /\ cycles = 2
    /\ hostsDB[TheHost].State = stateAcked
    /\ hostsDB[TheHost].LastAckedAt # ZeroTime
    /\ hostsDB[TheHost].LastSeenAt > hst.LastSeenAt

\* C10: no write to a stored Host record loses the last-seen timestamp
\* written by Discovery: the stored last-seen timestamp never goes back to an
\* older value.
C10_NoLostUpdate ==
    [][\A h \in HostIds :
          hostsDB[h] # NoRecord
              => hostsDB'[h].LastSeenAt >= hostsDB[h].LastSeenAt]_vars

----------------------------------------------------------------------------
(* Properties of the dispatcher *)

\* C12: every answer to the dispatch of a group that exists and has an
\* existing playbook assigned lists each host of the group whose record lookup
\* fails under "errors", lists every host of the group under "errors" or under
\* "started", a Deploy with the listed ID having been started for each host
\* under "started", and the answer is 202 (accepted) if and only if "started"
\* is not empty.
C12_GroupFanOut ==
    \A i \in 1..Len(responses) :
        LET r   == responses[i]
            grp == groupsDB[r.arg]
        IN  (/\ r.handler = "group"
             /\ grp # NoRecord
             /\ grp.Playbook # ""
             /\ Exists(playbooksDB, grp.Playbook))
            => /\ \A k \in 1..Len(grp.Hosts) :
                    LET h == grp.Hosts[k]
                    IN  /\ ~Exists(hostsDB, h) => h \in DOMAIN r.errors
                        /\ h \in DOMAIN r.errors \cup DOMAIN r.started
                        /\ h \in DOMAIN r.started =>
                             \E n \in 1..Len(deploys) :
                                 /\ deploys[n].Host = h
                                 /\ deploys[n].ID = r.started[h]
               /\ r.code = 202 <=> DOMAIN r.started # {}

\* C15: a Deploy created by newDeploy for another host or another playbook
\* than this Deploy's has an ID different from this Deploy's, and saving it
\* leaves this Deploy's record in the deploys collection as it was.
C15_DistinctDeployIDs ==
    \A h \in HostIds, p \in PlaybookIds :
        LET other == newDeploy(host(h, stateNew, now), p)
        IN  (h # dpy.Host \/ p # dpy.Playbook)
            => /\ other.ID # dpy.ID
               /\ Save(deploysDB, other.ID, other)[dpy.ID] = deploysDB[dpy.ID]

----------------------------------------------------------------------------
(* Properties of the agent *)

\* the agent has called dp.Deploy for the job of agentMsg
JobHandedOver == agentPc \in {"deploy", "start", "wait", "crashed"}

\* the agent has published on the reply subject of job message id
Acknowledged(id) ==
    \E i \in 1..Len(agentPub) :
        agentPub[i].subject = "reply" /\ agentPub[i].job = id

\* C16: when the agent hands a well-formed job to Deploy it has already
\* published the ack on the reply subject of that job's message, and every
\* success or error message of a job comes after the ack of that job.
C16_AckBeforeJob ==
    /\ JobHandedOver => Acknowledged(agentMsg.id)
    /\ \A i \in 1..Len(agentPub) :
          agentPub[i].subject \in {"success", "error"}
              => \E k \in 1..(i - 1) :
                     /\ agentPub[k].subject = "reply"
                     /\ agentPub[k].job = agentPub[i].job

\* a well-formed job has been acknowledged and handed to Deploy
C16_Witness ==
    /\ agentPc = "deploy"
    /\ agentMsg.wellFormed
    /\ Acknowledged(agentMsg.id)

\* C18: every call of Cancel made while the process of a job is running
\* sends the termination signal to that process.
C18_CancelSignalsRunningJob ==
    \A i \in 1..Len(cancels) : cancels[i].running => cancels[i].signalled

\* C19: no job message that arrives while a job is active (acknowledged and
\* handed to Deploy, its Deploy call not yet returned) is dropped.
C19_NoJobDroppedWhileActive ==
    \A i \in 1..Len(dropped) : dropped[i].at \notin {"deploy", "start", "wait"}

\* C20: the step by which the agent leaves a job message that does not decode
\* publishes exactly one message, the empty reply on that message's reply
\* subject, starts no process, calls no Deploy and returns the loop to its
\* receive; and no job is ever handed to Deploy for a message that does not
\* decode.
C20_UndecodableEnvelope ==
    [][/\ (agentPc = "parse" /\ ~agentMsg.wellFormed /\ agentPc' # agentPc)
          => /\ agentPub' = Append(agentPub, pub("reply", agentMsg.id, ""))
             /\ agentPc' = "range"
             /\ proc' = proc
             /\ returns' = returns
       /\ (agentPc' \in {"deploy", "start", "wait"}) => agentMsg'.wellFormed
      ]_vars

\* the first job message did not decode, was answered with the empty reply,
\* and the loop has received the second message
C20_Witness ==
    /\ agentPc = "parse"
    /\ agentMsg.id = 2
    /\ agentPub # <<>>
    /\ agentPub[1] = pub("reply", 1, "")

\* C21 (as stated): for every host, playbook, payload and deploy ID string,
\* ParseNanMsg applied to the bytes of the message built from them returns no
\* error and a message with the same four fields.
C21_RoundTripEveryString ==
    cpc = "parsed" =>
        /\ ~parsed.err
        /\ parsed.msg.Host = nsg.Host
        /\ parsed.msg.Playbook = nsg.Playbook
        /\ parsed.msg.Payload = nsg.Payload
        /\ parsed.msg.Deploy = nsg.Deploy

\* the four fields of the message are valid UTF-8
ValidFields ==
    /\ ValidString(nsg.Host)
    /\ ValidString(nsg.Playbook)
    /\ ValidString(nsg.Payload)
    /\ ValidString(nsg.Deploy)

\* C21 (amended): for every host, playbook, payload and deploy ID string that
\* is valid UTF-8, ParseNanMsg applied to the bytes of the message built from
\* them returns no error and a message with the same four fields; a byte that
\* is not valid UTF-8 comes back as U+FFFD.
C21_RoundTrip ==
    (cpc = "parsed" /\ ValidFields) =>
        /\ ~parsed.err
        /\ parsed.msg.Host = nsg.Host
        /\ parsed.msg.Playbook = nsg.Playbook
        /\ parsed.msg.Payload = nsg.Payload
        /\ parsed.msg.Deploy = nsg.Deploy

\* a message whose fields need escaping, or are left out, has been parsed back
C21_Witness ==
    /\ cpc = "parsed"
    /\ nsg.Host = <<Quote, Backslash>>
    /\ nsg.Playbook = <<>>
    /\ nsg.Payload = <<"a">>
    /\ nsg.Deploy = <<Quote>>
    /\ parsed.msg = nsg

\* C22: an execution error reported by the agent ends the Deploy in Error with
\* the output the agent captured as its last error message: once the error
\* subscription has recorded the failure, dpy.Error is the payload of the
\* error message.
C22_ErrorCarriesOutput ==
    cb2.pc \in {"l136", "l137"} => dpy.Error = cb2.msg

\* an iteration of the discovery loop that logs no persistence error
CleanStep == DiscoveryStep /\ ~logged'

\* a record appears for an identifier only in the iteration that handles it
CreatedOnlyForPong ==
    \A g \in HostIds :
        (~Exists(hostsDB, g) /\ Exists(hostsDB', g))
            => dpc = "save" /\ collected # <<>> /\ Head(collected) = g

C24_ErrorSkipsOneHost ==
    [][(dpc = "save" /\ collected' # collected /\ logged')
          => /\ collected' = Tail(collected)
             /\ dpc' = "save"
             /\ cycles' = cycles
             /\ hostsDB' = hostsDB]_vars

\* C24 witness: the create of h2 has just failed, nothing was written for it,
\* and the cycle is about to handle the host collected after it
C24_Witness ==
    /\ logged
    /\ dpc = "save"
    /\ collected = <<TheHost>>
    /\ ~Exists(hostsDB, "h2")

\* C25: the job specification the agent hands to the executor is the
\* decryption of the payload field of the envelope received, not of any other
\* field.
C25_JobFromPayload ==
    JobHandedOver => yml = decryptPlaybook(agentMsg.Payload)

\* C26: the ack the agent publishes for a well-formed job carries the content
\* checksum of that job's payload, the one the control plane computes for the
\* same playbook content (playbook.MD5SUM); acks of different playbooks differ.
C26_AckIsChecksum ==
    JobHandedOver =>
        \E p \in PlaybookIds :
            /\ agentMsg.Payload = EncryptedString(playbook(p), TheHost)
            /\ \E i \in 1..Len(agentPub) :
                   agentPub[i] = pub("reply", agentMsg.id, MD5SUM(playbook(p)))

\* C27: after a Deploy of playbook P to host H is sent, acked, succeeds or
\* errors, H's last-deployed / last-acked / last-success / last-error pair
\* holds the time of that event and the identifier of P: whenever the
\* timestamp of a pair is set (and its callback is not between the two
\* assignments), the playbook of the pair is the Deploy's playbook.
C27_LastPairsNamePlaybook ==
    /\ hst.LastDeployedAt # ZeroTime => hst.LastDeployedPlaybook = dpy.Playbook
    /\ hst.LastAckedAt # ZeroTime => hst.LastAckedPlaybook = dpy.Playbook
    /\ (hst.LastSuccessAt # ZeroTime /\ cb1.pc # "l125")
          => hst.LastSuccessPlaybook = dpy.Playbook
    /\ (hst.LastErrorAt # ZeroTime /\ cb2.pc # "l134")
          => hst.LastErrorPlaybook = dpy.Playbook

\* C28: the Deploy record carries a timestamp for each transition it made:
\* in state Acked its acked timestamp is set, in state Success its success
\* timestamp is set, in state Error its error timestamp and its last error
\* message are set.
C28_TransitionTimestamps ==
    /\ dpy.State = stateAcked => dpy.AckedAt # ZeroTime
    /\ dpy.State = stateSuccess => dpy.SuccessAt # ZeroTime
    /\ dpy.State = stateError => (dpy.ErrorAt # ZeroTime /\ dpy.Error # "")

\* C29: once the finished timestamp of the Deploy is set, no field of the
\* Deploy and no field of its Host object changes any more.
C29_ImmutableOnceFinished ==
    [][dpy.FinishedAt # ZeroTime => (dpy' = dpy /\ hst' = hst)]_vars

\* C30: at every sync invoked from the first transition to Sent onwards, the
\* Host's state equals the Deploy's state.
C30_HostFollowsDeploy ==
    \A i \in 1..Len(syncLog) :
        syncLog[i].dpy.State # stateNew
            => syncLog[i].hst.State = syncLog[i].dpy.State

\* Start has left its retry loop (by the ack, by the end of the budget, or by
\* the abandonment)
LoopLeft ==
    pc \in {"afterloop", "wait", "unsub2", "unsub1", "deferSync",
            "deferFinish", "deferClose", "done"}

\* C31: the terminal-outcome wait is entered only from Acked: a Deploy started
\* with retries > 0 that got no ack never subscribes to the success/error
\* topics, never ends in Success, and ends in the terminal failure state.
C31_WaitOnlyFromAcked ==
    /\ (R > 0 /\ (sub1 \/ sub2 \/ pc = "wait")) => AckReceived
    /\ (R > 0 /\ ~AckReceived) => dpy.State # stateSuccess
    /\ (R > 0 /\ ~AckReceived /\ pc = "done") => dpy.State = stateError

\* C32: when Start, called with retries > 0, has returned, the Deploy's state
\* is Success or Error (Abandoned is Error with reason "abandoned"), its
\* finished timestamp is set and its Done channel is closed; the channel is
\* never closed before the finished timestamp is set.
C32_FinishedInTerminalState ==
    /\ (R > 0 /\ pc = "done")
          => /\ dpy.State \in {stateSuccess, stateError}
             /\ dpy.FinishedAt # ZeroTime
             /\ done
    /\ done => dpy.FinishedAt # ZeroTime

\* C33: the caller waiting on Acked() is released: once Start, called with
\* retries > 0, has left its retry loop, whether by an ack or with every
\* attempt timed out, the poller behind Acked() may leave its loop and close
\* the channel the request handler waits on.
C33_RequestNeverBlocks ==
    (R > 0 /\ LoopLeft) => AckedReady

\* C36: a Deploy reaches Acked only for a job the agent accepted: every message
\* the agent publishes on the reply subject of a job request, which is what
\* the requester takes for the ack, is for a job message it has decoded, and
\* the agent goes on to run a job it has acknowledged.
C36_AckOnlyForDecodedJob ==
    /\ [][(Len(agentPub') > Len(agentPub)
             /\ agentPub'[Len(agentPub')].subject = "reply")
               => agentMsg.wellFormed]_vars
    /\ []((JobHandedOver /\ Acknowledged(agentMsg.id)) => agentPc # "crashed")

\* C34: no terminal outcome is lost between ack and subscription: while the
\* Deploy waits for its outcome, every success or error message the agent has
\* published for the acked job is queued on a subscription, being handled by
\* a callback, or recorded on the Host.
C34_NoOutcomeLost ==
    (pc = "wait" /\ published > 0)
        => \/ queue1 # <<>>
           \/ queue2 # <<>>
           \/ cb1.pc # "idle"
           \/ cb2.pc # "idle"
           \/ hst.LastSuccessAt # ZeroTime
           \/ hst.LastErrorAt # ZeroTime

\* C35: a Deploy's terminal outcome comes only from the job it dispatched: the
\* success callback of a Deploy never records the message of a job the agent
\* ran for an earlier Deploy to the same host.
C35_OutcomeOnlyFromOwnJob ==
    /\ cb1.pc \in {"l124", "l125", "l126", "l127"} => cb1.msg # EarlierOutput
    /\ hst.LastSuccessPlaybook # EarlierOutput

\* C37: the last sync of a Deploy sees the Deploy as finished: when Start has
\* returned, the last sync was handed a Deploy whose finished timestamp is
\* set, and so is the finished timestamp of the stored Deploy record.
C37_LastSyncSeesFinished ==
    pc = "done"
        => /\ syncLog # <<>>
           /\ syncLog[Len(syncLog)].dpy.FinishedAt # ZeroTime
           /\ deploysDB[dpy.ID].FinishedAt # ZeroTime

\* C38: every sync of a Deploy reaches the persistence callback its caller
\* installs with OnSync, so every transition is persisted: after each sync the
\* stored Deploy and the stored Host are the ones the sync was handed.
C38_EverySyncPersisted ==
    syncLog # <<>>
        => /\ deploysDB[dpy.ID] = syncLog[Len(syncLog)].dpy
           /\ hostsDB[hst.Name] = syncLog[Len(syncLog)].hst

\* C39: processing a well-formed job never stops the agent's job loop: the
\* agent's main goroutine is never ended by the job it was handed.
C39_JobLoopNeverStops ==
    agentPc # "crashed"

====
